---- MODULE Spec2Model ----
(***************************************************************************)
(* Model of selenium_parser.py: the two-phase crawl of run_parser          *)
(* (discovery per query term, then a pool of page-parsing workers, then    *)
(* url-dedup and save), the URL-pagination discovery loop of               *)
(* SeleniumParser.get_search_links_with_pagination, the retry loop of      *)
(* parse_company_page, and the helpers that clean an href, normalise a     *)
(* phone string and pick the websites of a company page.                   *)
(***************************************************************************)
EXTENDS Integers, Sequences, FiniteSets, TLC

\* ---------------------------------------------------------------- bounds
NumNiches == 2      \* number of query terms handed to run_parser
MaxUrl == 6         \* distinct company URLs the directory can serve
MaxWorkers == 2     \* largest max_workers tried
MaxApiItems == 1    \* longest raw API answer for one term
MaxCap == 6         \* largest small max_items tried by a discovery run
MaxPageSize == 2    \* most item links the directory puts on one result page
MaxHrefLen == 4     \* most pieces of an href handed to the cleaning step
MaxDigits == 12     \* most digits of a phone string handed to _normalize_phone
MaxLinks == 3       \* most outbound links on a company page
MaxEmails == 2      \* most mailto links on a company page
MaxApiCap == 3      \* largest max_items tried by an API collection
MaxApiPage == 4     \* page numbers of the API loop are counted up to this

\* ------------------------------------------------------ program constants
MinChunk == 5       \* chunk_size = max(5, ...)
max_retries == 3    \* parse_company_page
ItemsPerPage == 12  \* max_pages = (max_items // 12) + 5
PageBuffer == 5
max_consecutive_empty == 3
DefaultMaxItems == 1000
MaxWebsites == 5    \* _extract_websites: len(websites) < 5, websites[:5]
ApiEmptyLimit == 2  \* collect_items_via_api: consecutive_empty >= 2

VARIABLES
    \* ---- run_parser
    pc,                 \* position of run_parser / interactive_cli
    use_api,            \* argument use_api
    max_workers,        \* argument max_workers
    niche,              \* index of the query term the phase-1 loop is at
    all_results,        \* list of records
    all_links_to_parse, \* list of urls
    links_to_parse,     \* frozen list handed to the chunker
    chunks,             \* list of chunks (each a list of urls)
    wpc,                \* per chunk: "queued", "running", "finished" (returned),
                        \* "failed" (raised), then "joined" or "dropped" once
                        \* as_completed has consumed the future
    widx,               \* per chunk: position of the worker's for-loop
    wattempt,           \* per chunk: attempt of the running parse_company_page
    wresults,           \* per chunk: the worker's local results list
    sinkCalled,         \* save_to_excel was invoked
    sinkData,           \* the list it was invoked with
    returned,           \* the list run_parser returned
    \* ---- history of the run (observations, not program state)
    discovered,         \* urls returned by some discovery run
    visitOk,            \* urls whose parse_company_page returned a record
    visitFailed,        \* urls whose parse_company_page returned None
    joinedOk,           \* chunks whose results were merged
    mergedAtStop,       \* all_results at the moment the job was interrupted
    sessionsOpen,       \* browser sessions currently open
    sessionsOpened,     \* browser sessions opened so far
    \* ---- get_search_links_with_pagination
    g_pc,               \* "idle", "loop" (at the while test) or "returned"
    max_items,          \* argument max_items
    page_size,          \* the directory: item links per result page
    available,          \* the directory: items it has for the query
    unique_links,       \* set of cleaned hrefs
    page,
    consecutive_empty,
    stopped,            \* a break left the loop
    result,             \* the returned list
    loadFailed,         \* history: some result page did not load as served
    visitLog,           \* history: per page visit, whether it added a new url
    markerSeen,         \* history: a visited page showed the end marker
    discoveryOrder,     \* history: the cleaned hrefs in order of first add
    \* ---- one call of parse_company_page
    v_pc,               \* "idle", "attempt" (top of the for-loop) or "returned"
    v_url,              \* argument url
    v_attempt,          \* loop variable attempt
    v_log,              \* history: what each attempt met
    v_result,           \* the returned value
    \* ---- one application of a helper function to one input
    f_pc,               \* "idle", "input", "once" or "twice"
    f_in,               \* the argument
    f_out,              \* the value returned for it
    f_again,            \* the value returned for f_out
    \* ---- one call of collect_items_via_api
    a_pc,               \* "idle", "loop" (at the while test) or "returned"
    a_max_items,        \* argument max_items
    a_items,            \* items
    a_page,             \* page, counted up to MaxApiPage
    a_consecutive_empty,
    a_total_found,      \* total_found; NoTotal while it is None
    a_last              \* history: whether each of the last two answers was empty

runVars == <<pc, use_api, max_workers, niche, all_results, all_links_to_parse,
          links_to_parse, chunks, wpc, widx, wattempt, wresults, sinkCalled,
          sinkData, returned, discovered, visitOk, visitFailed, joinedOk,
          mergedAtStop, sessionsOpen, sessionsOpened>>
pagVars == <<g_pc, max_items, page_size, available, unique_links, page,
             consecutive_empty, stopped, result, loadFailed, visitLog,
             markerSeen, discoveryOrder>>
visVars == <<v_pc, v_url, v_attempt, v_log, v_result>>
fnVars == <<f_pc, f_in, f_out, f_again>>
apiVars == <<a_pc, a_max_items, a_items, a_page, a_consecutive_empty,
             a_total_found, a_last>>
outsideRun == <<pagVars, visVars, fnVars, apiVars>>
outsidePag == <<runVars, visVars, fnVars, apiVars>>
outsideVis == <<runVars, pagVars, fnVars, apiVars>>
outsideFn == <<runVars, pagVars, visVars, apiVars>>
outsideApi == <<runVars, pagVars, visVars, fnVars>>
vars == <<runVars, pagVars, visVars, fnVars, apiVars>>

\* ------------------------------------------------------------ data model
Urls == 1..MaxUrl
EmptyUrl == 0            \* the empty string as a url
NoName == "<null>"       \* Python None as a name

Min(a, b) == IF a < b THEN a ELSE b
Max(a, b) == IF a > b THEN a ELSE b

Range(s) == {s[k] : k \in 1..Len(s)}

\* Python truthiness of a name / a url
Truthy(name) == name # NoName /\ name # ""
UrlTruthy(u) == u # EmptyUrl

\* ------------------------------------------------- inputs of the run
\* What one discovery run (collect_links_via_selenium) can return: a list of
\* distinct urls.  The runs tried: nothing, the head of the directory, a tail
\* that overlaps the head, and the whole directory.
Interval(lo, hi) == [k \in 1..(hi - lo + 1) |-> lo + k - 1]
DiscoveryOutcomes ==
    {<<>>, Interval(1, 2), Interval(2, MaxUrl), Interval(1, MaxUrl)}

\* Raw items of one API answer: an id and a name (possibly empty).  Firm 2 is
\* also in the directory's pages; firm MaxUrl + 1 is known to the API only.
ApiOnlyId == MaxUrl + 1
ApiItems == {[id |-> 2, name |-> "Firm"], [id |-> 2, name |-> "Firm LLC"],
             [id |-> 2, name |-> ""], [id |-> ApiOnlyId, name |-> "Firm"]}
RawApiAnswers == UNION {[1..n -> ApiItems] : n \in 0..MaxApiItems}

\* The h1 of the company page at url u: page 1 has an empty heading, on page 2
\* the heading lookup throws (name stays None), every other page is named.
PageH1(u) == IF u = 1 THEN "" ELSE IF u = 2 THEN NoName ELSE "Firm"

\* The pages whose load can fail (navigation error or h1 wait timeout) on any
\* attempt; the other pages always load.
FlakyPages == {u \in Urls : u % 2 = 1}

\* ------------------------------------------------------ pure functions
\* TwoGisAPI.parse_api_item: name and url of the record built from an item.
parse_api_item(item) == [name |-> item.name, url |-> item.id]

\* HybridParser.collect_items_via_api, the per-item loop: an item is kept
\* only if its parsed name is truthy.
RECURSIVE CollectItems(_)
CollectItems(raw) ==
    IF raw = <<>> THEN <<>>
    ELSE LET parsed == parse_api_item(Head(raw))
         IN  IF Truthy(parsed.name)
             THEN <<parsed>> \o CollectItems(Tail(raw))
             ELSE CollectItems(Tail(raw))

\* SeleniumParser._extract_company_details + parse_company_page's
\* data["url"] = url: the record of a successful visit of u.
PageRecord(u) == [name |-> PageH1(u), url |-> u]

\* Mutant of DataTruthy: "if data and data.get('name'):".
DataTruthyNamed(data) == Truthy(data.name)

\* process_links_chunk: "if data:" -- a record is a non-empty dict, so every
\* record parse_company_page returns is appended.
DataTruthy(data) == TRUE

\* list(set(xs)): the distinct elements in an order the runtime chooses.
Ascending(S) ==
    LET RECURSIVE Asc(_)
        Asc(T) == IF T = {} THEN <<>>
                  ELSE LET m == CHOOSE x \in T : \A y \in T : x <= y
                       IN  <<m>> \o Asc(T \ {m})
    IN  Asc(S)
Reverse(s) == [k \in 1..Len(s) |-> s[Len(s) + 1 - k]]
ListOfSet(S) == {Ascending(S), Reverse(Ascending(S))}

\* Mutant of UniqueLinks: the list is used as collected, without set().
UniqueLinksKeepsDuplicates(links) == {links}

\* unique_links = list(set(all_links_to_parse))
UniqueLinks(links) == ListOfSet(Range(links))

\* existing_urls / links_to_parse of run_parser
ExistingUrls(results) == {results[k].url : k \in 1..Len(results)}
LinksToParse(uniq, results) ==
    SelectSeq(uniq, LAMBDA l : l \notin ExistingUrls(results))

\* chunk_size and chunks of run_parser
ChunkSize(n, workers) == Max(MinChunk, n \div workers)

\* Mutant of Chunks: the short slice at the end is left out.
ChunksDropsRemainder(links, size) ==
    LET n == Len(links)
        cnt == n \div size
    IN  [c \in 1..cnt |-> SubSeq(links, (c - 1) * size + 1, Min(c * size, n))]

Chunks(links, size) ==
    LET n == Len(links)
        cnt == (n + size - 1) \div size
    IN  [c \in 1..cnt |-> SubSeq(links, (c - 1) * size + 1, Min(c * size, n))]

\* Mutant of KeepRecord: the seen-set is not consulted.
KeepRecordIgnoringSeen(r, seen) == UrlTruthy(r.url)

\* "Deduplicate results" of run_parser: keep the first record of each url.
KeepRecord(r, seen) == UrlTruthy(r.url) /\ r.url \notin seen
RECURSIVE Dedup(_, _)
Dedup(results, seen) ==
    IF results = <<>> THEN <<>>
    ELSE LET r == Head(results)
         IN  IF KeepRecord(r, seen)
             THEN <<r>> \o Dedup(Tail(results), seen \cup {r.url})
             ELSE Dedup(Tail(results), seen)

\* Mutant of UniqueResults: each kept record is put in front of the list.
UniqueResultsNewestFirst(results) == Reverse(Dedup(results, {}))

UniqueResults(results) == Dedup(results, {})

\* ------------------------------------------------------------ run_parser
ChunkIds == DOMAIN chunks
Running == {c \in ChunkIds : wpc[c] = "running"}

RunInit ==
    /\ pc = "phase1"
    /\ use_api \in BOOLEAN
    /\ max_workers \in {1, MaxWorkers}
    /\ niche = 1
    /\ all_results = <<>>
    /\ all_links_to_parse = <<>>
    /\ links_to_parse = <<>>
    /\ chunks = <<>>
    /\ wpc = <<>>
    /\ widx = <<>>
    /\ wattempt = <<>>
    /\ wresults = <<>>
    /\ sinkCalled = FALSE
    /\ sinkData = <<>>
    /\ returned = <<>>
    /\ discovered = {}
    /\ visitOk = {}
    /\ visitFailed = {}
    /\ joinedOk = {}
    /\ mergedAtStop = <<>>
    /\ sessionsOpen = 0
    /\ sessionsOpened = 0

workerVars == <<chunks, wpc, widx, wattempt, wresults>>
outVars == <<sinkCalled, sinkData, returned>>
visitVars == <<visitOk, visitFailed, joinedOk, mergedAtStop>>

\* The phase-1 loop still has a term to process.
InPhase1 == pc = "phase1" /\ niche <= NumNiches

\* Phase 1, use_api and the API returned named items: all_results.extend(items)
ApiNiche ==
    /\ InPhase1 /\ use_api
    /\ \E raw \in RawApiAnswers :
          LET items == CollectItems(raw)
          IN  /\ items # <<>>
              /\ all_results' = all_results \o items
    /\ niche' = niche + 1
    /\ UNCHANGED <<outsideRun, pc, use_api, max_workers, all_links_to_parse, links_to_parse,
                   workerVars, outVars, discovered, visitVars, sessionsOpen,
                   sessionsOpened>>

\* Mutant of CollectLinks: the session of the first call is kept and used
\* again by the later calls.
CollectLinksSharedSession(links) ==
    /\ all_links_to_parse' = all_links_to_parse \o links
    /\ discovered' = discovered \cup Range(links)
    /\ sessionsOpened' = Max(sessionsOpened, 1)
    /\ sessionsOpen' = sessionsOpen
    /\ niche' = niche + 1
    /\ UNCHANGED <<outsideRun, pc, use_api, max_workers, all_results, links_to_parse,
                   workerVars, outVars, visitVars>>

\* HybridParser.collect_links_via_selenium: one session is opened, the
\* discovery run returns its links, the session is closed.
CollectLinks(links) ==
    /\ all_links_to_parse' = all_links_to_parse \o links
    /\ discovered' = discovered \cup Range(links)
    /\ sessionsOpened' = sessionsOpened + 1
    /\ sessionsOpen' = sessionsOpen
    /\ niche' = niche + 1
    /\ UNCHANGED <<outsideRun, pc, use_api, max_workers, all_results, links_to_parse,
                   workerVars, outVars, visitVars>>

\* Phase 1, use_api but the API gave no named item: fall back to Selenium.
ApiFallbackNiche ==
    /\ InPhase1 /\ use_api
    /\ \E raw \in RawApiAnswers : CollectItems(raw) = <<>>
    /\ \E links \in DiscoveryOutcomes : CollectLinks(links)

\* Phase 1, pure Selenium mode.
SeleniumNiche ==
    /\ InPhase1 /\ ~use_api
    /\ \E links \in DiscoveryOutcomes : CollectLinks(links)

\* Phase 1: SeleniumParser() raises in collect_links_via_selenium
\* (_setup_driver re-raises); nothing in run_parser catches it.
DiscoverySessionFails ==
    /\ InPhase1
    /\ use_api => \E raw \in RawApiAnswers : CollectItems(raw) = <<>>
    /\ pc' = "raised"
    /\ UNCHANGED <<outsideRun, use_api, max_workers, niche, all_results, all_links_to_parse,
                   links_to_parse, workerVars, outVars, discovered, visitVars,
                   sessionsOpen, sessionsOpened>>

\* Mutant of Phase1Done: phase 2 sits inside the for-loop over the terms.
Phase1DoneEarly == pc = "phase1" /\ niche > 1

\* "if all_links_to_parse:" ... "if links_to_parse:": freeze the unique links,
\* cut them into chunks and submit one future per chunk.
Phase1Done == pc = "phase1" /\ niche > NumNiches
StartPhase2 ==
    /\ Phase1Done
    /\ \E uniq \in UniqueLinks(all_links_to_parse) :
          LET ltp == LinksToParse(uniq, all_results)
              cs == Chunks(ltp, ChunkSize(Len(ltp), max_workers))
          IN  /\ links_to_parse' = ltp
              /\ chunks' = cs
              /\ wpc' = [c \in DOMAIN cs |-> "queued"]
              /\ widx' = [c \in DOMAIN cs |-> 1]
              /\ wattempt' = [c \in DOMAIN cs |-> 0]
              /\ wresults' = [c \in DOMAIN cs |-> <<>>]
              /\ pc' = IF ltp # <<>> THEN "phase2" ELSE "merge"
    /\ UNCHANGED <<outsideRun, use_api, max_workers, niche, all_results, all_links_to_parse,
                   outVars, discovered, visitVars, sessionsOpen, sessionsOpened>>

\* The pool executes queued futures on at most max_workers threads, also
\* while the executor is being shut down after an interrupt.
PoolAlive == pc \in {"phase2", "draining"}
CanStart(c) == PoolAlive /\ wpc[c] = "queued" /\ Cardinality(Running) < max_workers

\* process_links_chunk: SeleniumParser(...) succeeds.
WorkerStart(c) ==
    /\ CanStart(c)
    /\ wpc' = [wpc EXCEPT ![c] = "running"]
    /\ sessionsOpen' = sessionsOpen + 1
    /\ sessionsOpened' = sessionsOpened + 1
    /\ UNCHANGED <<outsideRun, pc, use_api, max_workers, niche, all_results,
                   all_links_to_parse, links_to_parse, chunks, widx, wattempt,
                   wresults, outVars, discovered, visitVars>>

\* process_links_chunk: SeleniumParser(...) raises before the try block; the
\* exception is stored in the future.
WorkerSessionFails(c) ==
    /\ CanStart(c)
    /\ wpc' = [wpc EXCEPT ![c] = "failed"]
    /\ UNCHANGED <<outsideRun, pc, use_api, max_workers, niche, all_results,
                   all_links_to_parse, links_to_parse, chunks, widx, wattempt,
                   wresults, outVars, discovered, visitVars, sessionsOpen,
                   sessionsOpened>>

Visiting(c) == PoolAlive /\ wpc[c] = "running" /\ widx[c] <= Len(chunks[c])

\* Mutant of AttemptOk: the worker also appends the record to the shared
\* all_results from inside its loop.
AttemptOkWritesShared(c) ==
    /\ Visiting(c)
    /\ LET url == chunks[c][widx[c]]
           data == PageRecord(url)
       IN  /\ wresults' = [wresults EXCEPT ![c] =
                              IF DataTruthy(data) THEN Append(@, data) ELSE @]
           /\ all_results' = Append(all_results, data)
           /\ visitOk' = visitOk \cup {url}
    /\ widx' = [widx EXCEPT ![c] = @ + 1]
    /\ wattempt' = [wattempt EXCEPT ![c] = 0]
    /\ UNCHANGED <<outsideRun, pc, use_api, max_workers, niche,
                   all_links_to_parse, links_to_parse, chunks, wpc, outVars,
                   discovered, visitFailed, joinedOk, mergedAtStop,
                   sessionsOpen, sessionsOpened>>

\* parse_company_page, one attempt that loads the page and finds the h1: the
\* record is returned and process_links_chunk appends it.
AttemptOk(c) ==
    /\ Visiting(c)
    /\ LET url == chunks[c][widx[c]]
           data == PageRecord(url)
       IN  /\ wresults' = [wresults EXCEPT ![c] =
                              IF DataTruthy(data) THEN Append(@, data) ELSE @]
           /\ visitOk' = visitOk \cup {url}
    /\ widx' = [widx EXCEPT ![c] = @ + 1]
    /\ wattempt' = [wattempt EXCEPT ![c] = 0]
    /\ UNCHANGED <<outsideRun, pc, use_api, max_workers, niche, all_results,
                   all_links_to_parse, links_to_parse, chunks, wpc, outVars,
                   discovered, visitFailed, joinedOk, mergedAtStop,
                   sessionsOpen, sessionsOpened>>

\* parse_company_page, one attempt that raises (navigation, wait or
\* extraction): retried while attempt < max_retries - 1, else None is returned
\* and the worker goes on with the next url.
LastAttempt(attempt) == attempt >= max_retries - 1
\* Mutant of AttemptFails: the last failure is re-raised instead of returning
\* None, which ends the worker (finally: parser.close()).
AttemptFailsAbortsWorker(c) ==
    /\ Visiting(c)
    /\ chunks[c][widx[c]] \in FlakyPages
    /\ IF LastAttempt(wattempt[c])
       THEN /\ wpc' = [wpc EXCEPT ![c] = "failed"]
            /\ visitFailed' = visitFailed \cup {chunks[c][widx[c]]}
            /\ sessionsOpen' = sessionsOpen - 1
            /\ UNCHANGED <<widx, wattempt>>
       ELSE /\ wattempt' = [wattempt EXCEPT ![c] = @ + 1]
            /\ UNCHANGED <<widx, visitFailed, wpc, sessionsOpen>>
    /\ UNCHANGED <<outsideRun, pc, use_api, max_workers, niche, all_results,
                   all_links_to_parse, links_to_parse, chunks, wresults,
                   outVars, discovered, visitOk, joinedOk, mergedAtStop,
                   sessionsOpened>>

AttemptFails(c) ==
    /\ Visiting(c)
    /\ chunks[c][widx[c]] \in FlakyPages
    /\ IF LastAttempt(wattempt[c])
       THEN /\ widx' = [widx EXCEPT ![c] = @ + 1]
            /\ wattempt' = [wattempt EXCEPT ![c] = 0]
            /\ visitFailed' = visitFailed \cup {chunks[c][widx[c]]}
       ELSE /\ wattempt' = [wattempt EXCEPT ![c] = @ + 1]
            /\ UNCHANGED <<widx, visitFailed>>
    /\ UNCHANGED <<outsideRun, pc, use_api, max_workers, niche, all_results,
                   all_links_to_parse, links_to_parse, chunks, wpc, wresults,
                   outVars, discovered, visitOk, joinedOk, mergedAtStop,
                   sessionsOpen, sessionsOpened>>

\* Mutant of WorkerReturns: the worker returns without parser.close().
WorkerReturnsKeepsSession(c) ==
    /\ PoolAlive /\ wpc[c] = "running" /\ widx[c] > Len(chunks[c])
    /\ wpc' = [wpc EXCEPT ![c] = "finished"]
    /\ sessionsOpen' = sessionsOpen
    /\ UNCHANGED <<outsideRun, pc, use_api, max_workers, niche, all_results,
                   all_links_to_parse, links_to_parse, chunks, widx, wattempt,
                   wresults, outVars, discovered, visitVars, sessionsOpened>>

\* process_links_chunk: the for-loop is over; finally: parser.close();
\* return results.
WorkerReturns(c) ==
    /\ PoolAlive /\ wpc[c] = "running" /\ widx[c] > Len(chunks[c])
    /\ wpc' = [wpc EXCEPT ![c] = "finished"]
    /\ sessionsOpen' = sessionsOpen - 1
    /\ UNCHANGED <<outsideRun, pc, use_api, max_workers, niche, all_results,
                   all_links_to_parse, links_to_parse, chunks, widx, wattempt,
                   wresults, outVars, discovered, visitVars, sessionsOpened>>

\* Mutant of Join: future.result() is called outside any try, so a worker's
\* exception leaves run_parser.
JoinWithoutCatch(c) ==
    /\ pc = "phase2"
    /\ wpc[c] \in {"finished", "failed"}
    /\ IF wpc[c] = "finished"
       THEN /\ all_results' = all_results \o wresults[c]
            /\ joinedOk' = joinedOk \cup {c}
            /\ pc' = pc
       ELSE /\ pc' = "raised"
            /\ UNCHANGED <<all_results, joinedOk>>
    /\ wpc' = [wpc EXCEPT ![c] = IF @ = "finished" THEN "joined" ELSE "dropped"]
    /\ UNCHANGED <<outsideRun, use_api, max_workers, niche, all_links_to_parse,
                   links_to_parse, chunks, widx, wattempt, wresults, outVars,
                   discovered, visitOk, visitFailed, mergedAtStop,
                   sessionsOpen, sessionsOpened>>

\* as_completed yields a finished future: future.result() either returns the
\* chunk's results, which are appended to all_results, or raises the worker's
\* exception, which "except Exception" logs and drops.
Join(c) ==
    /\ pc = "phase2"
    /\ wpc[c] \in {"finished", "failed"}
    /\ IF wpc[c] = "finished"
       THEN /\ all_results' = all_results \o wresults[c]
            /\ joinedOk' = joinedOk \cup {c}
       ELSE UNCHANGED <<all_results, joinedOk>>
    /\ wpc' = [wpc EXCEPT ![c] = IF @ = "finished" THEN "joined" ELSE "dropped"]
    /\ UNCHANGED <<outsideRun, pc, use_api, max_workers, niche, all_links_to_parse,
                   links_to_parse, chunks, widx, wattempt, wresults, outVars,
                   discovered, visitOk, visitFailed, mergedAtStop,
                   sessionsOpen, sessionsOpened>>

\* as_completed is exhausted and the executor's with-block is left.
AllJoined == \A c \in ChunkIds : wpc[c] \in {"joined", "dropped"}
EndPhase2 ==
    /\ pc = "phase2" /\ AllJoined
    /\ pc' = "merge"
    /\ UNCHANGED <<outsideRun, use_api, max_workers, niche, all_results, all_links_to_parse,
                   links_to_parse, workerVars, outVars, discovered, visitVars,
                   sessionsOpen, sessionsOpened>>

\* "Deduplicate results", "Save results", return unique_results.
\* save_to_excel is only called with a non-empty list.
\* Mutant of SaveInvoked: save_to_excel is called whatever the list holds.
SaveInvokedAlways(unique_results) == TRUE

\* "if unique_results:" before save_to_excel
SaveInvoked(unique_results) == unique_results # <<>>

Finalize ==
    /\ pc = "merge"
    /\ LET unique_results == UniqueResults(all_results)
       IN  /\ sinkCalled' = SaveInvoked(unique_results)
           /\ sinkData' = unique_results
           /\ returned' = unique_results
    /\ pc' = "done"
    /\ UNCHANGED <<outsideRun, use_api, max_workers, niche, all_results, all_links_to_parse,
                   links_to_parse, workerVars, discovered, visitVars,
                   sessionsOpen, sessionsOpened>>

\* KeyboardInterrupt reaches the main thread while it waits in as_completed:
\* "except Exception" does not catch it, the with-block's exit waits for the
\* pool (shutdown(wait=True)) and the exception leaves run_parser.
Interrupt ==
    /\ pc = "phase2"
    /\ pc' = "draining"
    /\ mergedAtStop' = all_results
    /\ UNCHANGED <<outsideRun, use_api, max_workers, niche, all_results, all_links_to_parse,
                   links_to_parse, workerVars, outVars, discovered, visitOk,
                   visitFailed, joinedOk, sessionsOpen, sessionsOpened>>

\* The pool has drained; interactive_cli's "except KeyboardInterrupt" prints
\* the stop notice.  run_parser returned nothing and saved nothing.
PoolIdle == \A c \in ChunkIds : wpc[c] \notin {"queued", "running"}
InterruptPropagates ==
    /\ pc = "draining" /\ PoolIdle
    /\ pc' = "interrupted"
    /\ UNCHANGED <<outsideRun, use_api, max_workers, niche, all_results, all_links_to_parse,
                   links_to_parse, workerVars, outVars, discovered, visitVars,
                   sessionsOpen, sessionsOpened>>

\* ------------------------------------ get_search_links_with_pagination
\* An href is a string, modelled as the sequence of its pieces: the item's
\* address up to and including "/firm/<id>", then an optional "?" and query,
\* then an optional "#" and fragment.
ItemId(i) == ToString(i)
Base(i) == <<"https://2gis.ru/city/firm/", ItemId(i)>>
QueryPart == <<"?", "utm=2">>
FragmentPart == <<"#", "s">>

\* The href the directory puts on the link of item i: items are served with a
\* query string, with a fragment, with both, or bare.
Href(i) ==
    CASE i % 4 = 1 -> Base(i) \o QueryPart
      [] i % 4 = 2 -> Base(i) \o FragmentPart
      [] i % 4 = 3 -> Base(i) \o QueryPart \o FragmentPart
      [] OTHER     -> Base(i)

\* The item links of result page p, in document order.
PageItems(p, size, avail) ==
    LET lo == (p - 1) * size + 1
        hi == Min(p * size, avail)
    IN  [k \in 1..(hi - lo + 1) |-> Href(lo + k - 1)]

\* href.split("?")[0]
RECURSIVE BeforeFirst(_, _)
BeforeFirst(s, piece) ==
    IF s = <<>> \/ Head(s) = piece THEN <<>>
    ELSE <<Head(s)>> \o BeforeFirst(Tail(s), piece)

\* Mutant of CleanHref: the href is cut at its last "?" (rsplit).
CleanHrefAtLast(href) ==
    LET qs == {k \in 1..Len(href) : href[k] = "?"}
    IN  IF qs = {} THEN href
        ELSE SubSeq(href, 1, (CHOOSE k \in qs : \A j \in qs : j <= k) - 1)

CleanHref(href) == BeforeFirst(href, "?")

\* "if href and '/firm/' in href"
IsFirmHref(href) == href # <<>> /\ \E k \in 1..Len(href) : href[k] = Base(1)[1]

\* The for-loop over the links of one page: the cleaned hrefs it adds.
CleanedLinks(links) ==
    {CleanHref(links[k]) : k \in {j \in 1..Len(links) : IsFirmHref(links[j])}}

\* Mutant of MaxPages: the buffer is left out.
MaxPagesNoBuffer(n) == n \div ItemsPerPage

MaxPages(n) == (n \div ItemsPerPage) + PageBuffer

\* The while test.
LoopCond ==
    /\ ~stopped
    /\ Cardinality(unique_links) < max_items
    /\ page <= MaxPages(max_items)

\* list(unique_links): the set in an order the runtime chooses (here by item,
\* forwards or backwards); [:max_items] keeps the first max_items of it.
ItemOf(href) == CHOOSE i \in Urls : ItemId(i) = href[2]
OrderedByItem(S) ==
    LET RECURSIVE Asc(_)
        Asc(T) == IF T = {} THEN <<>>
                  ELSE LET m == CHOOSE x \in T : \A y \in T : ItemOf(x) <= ItemOf(y)
                       IN  <<m>> \o Asc(T \ {m})
    IN  Asc(S)
ListOfLinks(S) == {OrderedByItem(S), Reverse(OrderedByItem(S))}
Take(s, n) == SubSeq(s, 1, Min(n, Len(s)))

MaxItemsTried == (0..MaxCap) \cup {ItemsPerPage, DefaultMaxItems}

PagInit ==
    /\ g_pc = "loop"
    /\ max_items \in MaxItemsTried
    /\ page_size \in 1..MaxPageSize
    /\ available \in 0..MaxUrl
    /\ unique_links = {}
    /\ page = 1
    /\ consecutive_empty = 0
    /\ stopped = FALSE
    /\ result = <<>>
    /\ loadFailed = FALSE
    /\ visitLog = <<>>
    /\ markerSeen = FALSE
    /\ discoveryOrder = <<>>

dirVars == <<max_items, page_size, available>>

\* A visit that adds nothing before it is abandoned (wait timeout, or an
\* exception caught by the outer handler): consecutive_empty += 1, break at
\* max_consecutive_empty, else page += 1.
EmptyVisit ==
    /\ consecutive_empty' = consecutive_empty + 1
    /\ visitLog' = Append(visitLog, FALSE)
    /\ IF consecutive_empty + 1 >= max_consecutive_empty
       THEN stopped' = TRUE /\ page' = page
       ELSE stopped' = FALSE /\ page' = page + 1
    /\ UNCHANGED <<g_pc, dirVars, unique_links, discoveryOrder, result, outsidePag>>

\* driver.get (or anything else in the try block) raises.
PagLoadError ==
    /\ g_pc = "loop" /\ LoopCond
    /\ loadFailed' = TRUE
    /\ UNCHANGED markerSeen
    /\ EmptyVisit

\* The marker is shown only where no result follows.
MarkerPossible(p) == p * page_size >= available

\* The wait for an item link times out: the page is past the last result
\* (and may show the end marker instead of links), or the directory answered
\* with an empty page (rate limiting). The marker is not looked for.
PagWaitTimeout ==
    /\ g_pc = "loop" /\ LoopCond
    /\ loadFailed' = (loadFailed \/ PageItems(page, page_size, available) # <<>>)
    /\ \E marker \in BOOLEAN :
          /\ marker => PageItems(page, page_size, available) = <<>>
          /\ markerSeen' = (markerSeen \/ marker)
    /\ EmptyVisit

\* The page shows item links: they are cleaned and added; the empty count is
\* reset or raised; then the end-of-results marker is looked for.
\* Mutant of NewOnPage: the links held after the page are counted.
NewOnPageCountsAll(before, after) == Cardinality(after)

NewOnPage(before, after) == Cardinality(after) - Cardinality(before)

\* History: the order in which the for-loop first adds each cleaned href.
RECURSIVE AddInOrder(_, _)
AddInOrder(order, links) ==
    IF links = <<>> THEN order
    ELSE LET c == CleanHref(Head(links))
         IN  IF IsFirmHref(Head(links)) /\ c \notin Range(order)
             THEN AddInOrder(Append(order, c), Tail(links))
             ELSE AddInOrder(order, Tail(links))

LinksVisit(links, marker) ==
    LET after == unique_links \cup CleanedLinks(links)
        fresh == NewOnPage(unique_links, after) > 0
        empties == IF fresh THEN 0 ELSE consecutive_empty + 1
        break == (~fresh /\ empties >= max_consecutive_empty) \/ marker
    IN  /\ unique_links' = after
        /\ consecutive_empty' = empties
        /\ stopped' = break
        /\ page' = IF break THEN page ELSE page + 1
        /\ visitLog' = Append(visitLog, after # unique_links)
        /\ markerSeen' = (markerSeen \/ marker)
        /\ discoveryOrder' = AddInOrder(discoveryOrder, links)
        /\ UNCHANGED <<g_pc, dirVars, result, outsidePag>>

PagLinks ==
    /\ g_pc = "loop" /\ LoopCond
    /\ PageItems(page, page_size, available) # <<>>
    /\ \E marker \in BOOLEAN :
          /\ marker => MarkerPossible(page)
          /\ LinksVisit(PageItems(page, page_size, available), marker)
    /\ UNCHANGED loadFailed

\* The directory answers page p with the links of page p - 1 again.
PagStale ==
    /\ g_pc = "loop" /\ LoopCond
    /\ page > 1
    /\ PageItems(page - 1, page_size, available) # <<>>
    /\ LinksVisit(PageItems(page - 1, page_size, available), FALSE)
    /\ loadFailed' = TRUE

\* result = list(unique_links)[:max_items]; return result
PagReturn ==
    /\ g_pc = "loop" /\ ~LoopCond
    /\ \E order \in ListOfLinks(unique_links) : result' = Take(order, max_items)
    /\ g_pc' = "returned"
    /\ UNCHANGED <<dirVars, unique_links, page, consecutive_empty, stopped,
                   loadFailed, visitLog, markerSeen, discoveryOrder,
                   outsidePag>>

\* ------------------------------------------------------- specifications
PagIdle ==
    /\ g_pc = "idle"
    /\ max_items = 0
    /\ page_size = 1
    /\ available = 0
    /\ unique_links = {}
    /\ page = 1
    /\ consecutive_empty = 0
    /\ stopped = FALSE
    /\ result = <<>>
    /\ loadFailed = FALSE
    /\ visitLog = <<>>
    /\ markerSeen = FALSE
    /\ discoveryOrder = <<>>

VisIdle ==
    /\ v_pc = "idle"
    /\ v_url = 0
    /\ v_attempt = 0
    /\ v_log = <<>>
    /\ v_result = <<>>

FnIdle ==
    /\ f_pc = "idle"
    /\ f_in = <<>>
    /\ f_out = <<>>
    /\ f_again = <<>>

NoTotal == -1
ApiIdle ==
    /\ a_pc = "idle"
    /\ a_max_items = 0
    /\ a_items = <<>>
    /\ a_page = 1
    /\ a_consecutive_empty = 0
    /\ a_total_found = NoTotal
    /\ a_last = <<>>

RunIdle ==
    /\ pc = "idle"
    /\ use_api = FALSE
    /\ max_workers = 1
    /\ niche = 1
    /\ all_results = <<>>
    /\ all_links_to_parse = <<>>
    /\ links_to_parse = <<>>
    /\ chunks = <<>>
    /\ wpc = <<>>
    /\ widx = <<>>
    /\ wattempt = <<>>
    /\ wresults = <<>>
    /\ sinkCalled = FALSE
    /\ sinkData = <<>>
    /\ returned = <<>>
    /\ discovered = {}
    /\ visitOk = {}
    /\ visitFailed = {}
    /\ joinedOk = {}
    /\ mergedAtStop = <<>>
    /\ sessionsOpen = 0
    /\ sessionsOpened = 0

\* run_parser
Init == RunInit /\ PagIdle /\ VisIdle /\ FnIdle /\ ApiIdle

Next ==
    \/ ApiNiche
    \/ ApiFallbackNiche
    \/ SeleniumNiche
    \/ DiscoverySessionFails
    \/ StartPhase2
    \/ \E c \in ChunkIds : WorkerStart(c)
    \/ \E c \in ChunkIds : WorkerSessionFails(c)
    \/ \E c \in ChunkIds : AttemptOk(c)
    \/ \E c \in ChunkIds : AttemptFails(c)
    \/ \E c \in ChunkIds : WorkerReturns(c)
    \/ \E c \in ChunkIds : Join(c)
    \/ EndPhase2
    \/ Finalize
    \/ Interrupt
    \/ InterruptPropagates

Spec == Init /\ [][Next]_vars

\* One discovery run of get_search_links_with_pagination
InitPag == PagInit /\ RunIdle /\ VisIdle /\ FnIdle /\ ApiIdle
NextPag ==
    \/ PagLoadError
    \/ PagWaitTimeout
    \/ PagLinks
    \/ PagStale
    \/ PagReturn
SpecPag == InitPag /\ [][NextPag]_vars

\* The cleaning step of the discovery loop applied to an href, and then to
\* what it returned.
HrefPieces == {Base(1)[1], ItemId(1), "?", "#", QueryPart[2]}
RECURSIVE SeqsUpTo(_, _)
SeqsUpTo(S, n) ==
    IF n = 0 THEN {<<>>}
    ELSE LET shorter == SeqsUpTo(S, n - 1)
         IN  shorter \cup {Append(q, x) : q \in shorter, x \in S}
HrefInputs == SeqsUpTo(HrefPieces, MaxHrefLen)

InitUrl ==
    /\ f_pc = "href"
    /\ f_in \in HrefInputs
    /\ f_out = <<>>
    /\ f_again = <<>>
    /\ RunIdle /\ PagIdle /\ VisIdle /\ ApiIdle

CleanOnce ==
    /\ f_pc = "href"
    /\ f_out' = CleanHref(f_in)
    /\ f_pc' = "cleaned"
    /\ UNCHANGED <<f_in, f_again, outsideFn>>

CleanAgain ==
    /\ f_pc = "cleaned"
    /\ f_again' = CleanHref(f_out)
    /\ f_pc' = "recleaned"
    /\ UNCHANGED <<f_in, f_out, outsideFn>>

NextUrl ==
    \/ CleanOnce
    \/ CleanAgain
SpecUrl == InitUrl /\ [][NextUrl]_vars

\* ------------------------------------------------- collect_items_via_api
InitApi ==
    /\ a_pc = "loop"
    /\ a_max_items \in 0..MaxApiCap
    /\ a_items = <<>>
    /\ a_page = 1
    /\ a_consecutive_empty = 0
    /\ a_total_found = NoTotal
    /\ a_last = <<>>
    /\ RunIdle /\ PagIdle /\ VisIdle /\ FnIdle

\* The for-loop over page_items: named items are appended until max_items.
RECURSIVE AddItems(_, _, _)
AddItems(items, page_items, cap) ==
    IF page_items = <<>> \/ Len(items) >= cap THEN items
    ELSE LET parsed == parse_api_item(Head(page_items))
         IN  AddItems(IF Truthy(parsed.name) THEN Append(items, parsed) ELSE items,
                      Tail(page_items), cap)

\* One answer of search_items is taken: total_found is set from the first
\* answer; the history keeps the emptiness of the last two answers.
Answered(total, empty) ==
    /\ a_total_found' = IF a_total_found = NoTotal THEN total ELSE a_total_found
    /\ a_last' = IF a_last = <<>> THEN <<empty>> ELSE <<a_last[Len(a_last)], empty>>
NextPage == a_page' = Min(a_page + 1, MaxApiPage)

\* Mutant of ApiEmptyPage: the first empty answer ends the loop.
ApiEmptyPageStopsAtOnce ==
    /\ a_pc = "loop" /\ Len(a_items) < a_max_items
    /\ \E total \in 0..(MaxApiCap + 1) : Answered(total, TRUE)
    /\ a_consecutive_empty' = a_consecutive_empty + 1
    /\ a_pc' = "returned" /\ a_page' = a_page
    /\ UNCHANGED <<a_max_items, a_items, outsideApi>>

\* The answer has no items (also what search_items returns on an HTTP error
\* or an exception): break at the second one in a row, else the next page.
ApiEmptyPage ==
    /\ a_pc = "loop" /\ Len(a_items) < a_max_items
    /\ \E total \in 0..(MaxApiCap + 1) : Answered(total, TRUE)
    /\ a_consecutive_empty' = a_consecutive_empty + 1
    /\ IF a_consecutive_empty + 1 >= ApiEmptyLimit
       THEN a_pc' = "returned" /\ a_page' = a_page
       ELSE a_pc' = "loop" /\ NextPage
    /\ UNCHANGED <<a_max_items, a_items, outsideApi>>

\* The answer has items: the named ones are added; break when total_found
\* is reached, else the next page.
ApiItemsPage ==
    /\ a_pc = "loop" /\ Len(a_items) < a_max_items
    /\ \E total \in 0..(MaxApiCap + 1), page_items \in RawApiAnswers \ {<<>>} :
          /\ Answered(total, FALSE)
          /\ a_items' = AddItems(a_items, page_items, a_max_items)
    /\ a_consecutive_empty' = 0
    /\ IF Len(a_items') >= a_total_found'
       THEN a_pc' = "returned" /\ a_page' = a_page
       ELSE a_pc' = "loop" /\ NextPage
    /\ UNCHANGED <<a_max_items, outsideApi>>

\* The while test fails: return items.
ApiLoopExit ==
    /\ a_pc = "loop" /\ Len(a_items) >= a_max_items
    /\ a_pc' = "returned"
    /\ UNCHANGED <<a_max_items, a_items, a_page, a_consecutive_empty,
                   a_total_found, a_last, outsideApi>>

NextApi ==
    \/ ApiEmptyPage
    \/ ApiItemsPage
    \/ ApiLoopExit
\* The loop is sequential code: while a step is possible, one is taken.
SpecApi == InitApi /\ [][NextApi]_vars /\ WF_vars(NextApi)

\* ---------------------------------------------------- parse_company_page
InitVis ==
    /\ v_pc = "attempt"
    /\ v_url \in Urls
    /\ v_attempt = 0
    /\ v_log = <<>>
    /\ v_result = <<>>
    /\ RunIdle /\ PagIdle /\ FnIdle /\ ApiIdle

\* Mutant of AttemptRaised: the exception of the last attempt is raised again.
AttemptRaisedReraises(met) ==
    /\ v_log' = Append(v_log, met)
    /\ IF LastAttempt(v_attempt)
       THEN v_pc' = "raised" /\ v_attempt' = v_attempt
       ELSE v_pc' = "attempt" /\ v_attempt' = v_attempt + 1
    /\ UNCHANGED <<v_url, v_result, outsideVis>>

\* The except branch: another attempt while attempt < max_retries - 1, else
\* return None (written <<>>; a returned record data is written <<data>>).
AttemptRaised(met) ==
    /\ v_log' = Append(v_log, met)
    /\ IF LastAttempt(v_attempt)
       THEN v_pc' = "returned" /\ v_attempt' = v_attempt
       ELSE v_pc' = "attempt" /\ v_attempt' = v_attempt + 1
    /\ UNCHANGED <<v_url, v_result, outsideVis>>

\* driver.get(url) raises.
VisitNavigationFails ==
    /\ v_pc = "attempt"
    /\ AttemptRaised("navigation")

\* Mutant of VisitWaitTimeout: the timeout of the wait is swallowed and the
\* extraction runs on the page as loaded.
VisitWaitTimeoutIgnored ==
    /\ v_pc = "attempt"
    /\ v_log' = Append(v_log, "wait")
    /\ v_result' = <<PageRecord(v_url)>>
    /\ v_pc' = "returned"
    /\ UNCHANGED <<v_url, v_attempt, outsideVis>>

\* The page loads, WebDriverWait(...).until(h1 present) raises
\* TimeoutException inside the try block.
VisitWaitTimeout ==
    /\ v_pc = "attempt"
    /\ AttemptRaised("wait")

\* The page loads and shows its h1, and _extract_company_details raises
\* (it guards its lookups, but not city.capitalize()).
VisitExtractionFails ==
    /\ v_pc = "attempt"
    /\ AttemptRaised("extraction")

\* The page loads and shows its h1: data = _extract_company_details(city);
\* data["url"] = url; return data.
VisitOk ==
    /\ v_pc = "attempt"
    /\ v_log' = Append(v_log, "ok")
    /\ v_result' = <<PageRecord(v_url)>>
    /\ v_pc' = "returned"
    /\ UNCHANGED <<v_url, v_attempt, outsideVis>>

NextVis ==
    \/ VisitNavigationFails
    \/ VisitWaitTimeout
    \/ VisitExtractionFails
    \/ VisitOk
SpecVis == InitVis /\ [][NextVis]_vars

\* ------------------------------------------------------ _normalize_phone
\* A phone string is the sequence of its characters.
Digits == {"0", "1", "2", "3", "4", "5", "6", "7", "8", "9"}
IsDigit(c) == c \in Digits

\* re.sub(r'\D', '', phone)
DigitsOf(phone) == SelectSeq(phone, IsDigit)

\* Mutant of normalize_phone: the trunk digit of an 11-digit number is kept.
normalize_phoneKeepsTrunk(phone) ==
    LET digits == DigitsOf(phone)
    IN  IF phone = <<>> \/ digits = <<>> THEN <<>>
        ELSE IF Len(digits) = 11 /\ Head(digits) \in {"7", "8"}
             THEN <<"+", "7">> \o digits
        ELSE IF Len(digits) = 10 THEN <<"+", "7">> \o digits
        ELSE IF Head(phone) # "+" THEN <<"+">> \o digits
        ELSE phone

normalize_phone(phone) ==
    LET digits == DigitsOf(phone)
    IN  IF phone = <<>> \/ digits = <<>> THEN <<>>
        ELSE IF Len(digits) = 11 /\ Head(digits) \in {"7", "8"}
             THEN <<"+", "7">> \o Tail(digits)
        ELSE IF Len(digits) = 10 THEN <<"+", "7">> \o digits
        ELSE IF Head(phone) # "+" THEN <<"+">> \o digits
        ELSE phone

\* The phone strings tried: n digits after a first digit, written plainly,
\* with a leading "+", with separators, or with both.
FirstDigits == {"1", "7", "8", "9"}
DigitString(first, n) ==
    IF n = 0 THEN <<>>
    ELSE <<first>> \o [k \in 1..(n - 1) |-> ToString(k % 10)]
Separated(d) ==
    IF d = <<>> THEN <<"-">> ELSE <<Head(d), " ", "(">> \o Tail(d) \o <<")">>
PhoneStyles == {"plain", "plus", "separated", "plus separated", "space plus"}
Decorate(d, style) ==
    CASE style = "plain" -> d
      [] style = "plus" -> <<"+">> \o d
      [] style = "separated" -> Separated(d)
      [] style = "plus separated" -> <<"+">> \o Separated(d)
      [] OTHER -> <<" ", "+">> \o d
PhoneInputs ==
    {Decorate(DigitString(first, n), style) :
        first \in FirstDigits, n \in 0..MaxDigits, style \in PhoneStyles}

InitPhone ==
    /\ f_pc = "phone"
    /\ f_in \in PhoneInputs
    /\ f_out = <<>>
    /\ f_again = <<>>
    /\ RunIdle /\ PagIdle /\ VisIdle /\ ApiIdle

Normalize ==
    /\ f_pc = "phone"
    /\ f_out' = normalize_phone(f_in)
    /\ f_pc' = "normalized"
    /\ UNCHANGED <<f_in, f_again, outsideFn>>

NextPhone == Normalize
SpecPhone == InitPhone /\ [][NextPhone]_vars

\* ----------------------------------------------------- _extract_websites
\* An href is the sequence of its pieces (scheme, host parts, path); the
\* visible text of a link is the sequence of its characters.
ignored_domains ==
    {"2gis.", "google.", "yandex.", "vk.com",
     "t.me", "instagram.com", "facebook.com", "twitter.com",
     "ok.ru", "youtube.com", "whatsapp.com", "wa.me",
     "apple.com", "play.google.com", "apps.apple.com", "booking.com",
     "tripadvisor.", "delivery-club.ru", "eda.yandex", "zoon.ru",
     "yell.ru"}

\* str.lower() on the pieces and characters that occur in the inputs.
Lower(s) ==
    [k \in DOMAIN s |-> CASE s[k] = "VK.COM" -> "vk.com"
                          [] s[k] = "W" -> "w"
                          [] OTHER -> s[k]]

\* str.strip()
RECURSIVE Strip(_)
Strip(s) ==
    IF s = <<>> THEN s
    ELSE IF Head(s) = " " THEN Strip(Tail(s))
    ELSE IF s[Len(s)] = " " THEN Strip(SubSeq(s, 1, Len(s) - 1))
    ELSE s

\* sub in s
Contains(s, sub) ==
    \E i \in 1..(Len(s) - Len(sub) + 1) : SubSeq(s, i, i + Len(sub) - 1) = sub

\* Mutant of IgnoredHref: the href is matched as written, not lower-cased.
IgnoredHrefCaseSensitive(href) ==
    \E d \in ignored_domains : Contains(href, <<d>>)

\* any(d in href_lower for d in ignored_domains)
IgnoredHref(href) ==
    \E d \in ignored_domains : Contains(Lower(href), <<d>>)

\* any(kw in text for kw in [...]): the four keywords, a Cyrillic
\* character written as its code point.
AppText(text) ==
    \E kw \in {<<"U+0441", "U+043A", "U+0430", "U+0447", "U+0430", "U+0442", "U+044C">>,
                <<"d", "o", "w", "n", "l", "o", "a", "d">>,
                <<"a", "p", "p">>,
                <<"U+043F", "U+0440", "U+0438", "U+043B", "U+043E", "U+0436", "U+0435", "U+043D", "U+0438", "U+0435">>} :
        Contains(text, kw)

is_likely_website(text) ==
    \/ text \in {<<"U+0441", "U+0430", "U+0439", "U+0442">>, <<"w", "e", "b", "s", "i", "t", "e">>,
                 <<"U+0432", "U+0435", "U+0431", "-", "U+0441", "U+0430", "U+0439", "U+0442">>}
    \/ Contains(text, <<".">>) /\ ~Contains(text, <<" ">>) /\ Len(text) > 3

\* The for-loop over the links, from the lists websites and seen so far.
RECURSIVE ExtractFrom(_, _, _)
ExtractFrom(links, websites, seen) ==
    IF links = <<>> THEN websites
    ELSE LET href == Head(links).href
             text == Strip(Lower(Head(links).text))
             likely == is_likely_website(text)
         IN  IF href = <<>> \/ IgnoredHref(href) \/ AppText(text)
             THEN ExtractFrom(Tail(links), websites, seen)
             ELSE IF (likely \/ Len(websites) < MaxWebsites) /\ href \notin seen
             THEN ExtractFrom(Tail(links),
                              IF likely THEN <<href>> \o websites
                              ELSE Append(websites, href),
                              seen \cup {href})
             ELSE ExtractFrom(Tail(links), websites, seen)
extract_websites(links) == Take(ExtractFrom(links, <<>>, {}), MaxWebsites)

\* The links a company page can carry: hrefs of two company sites, of a
\* social network (written in lower and in upper case) and an empty href;
\* texts: a website label, a domain, a plain word, app vocabulary.
WebLinks ==
    LET hrefs == {<<"https://", "acme.ru">>, <<"https://", "shop.ru", "/">>,
                  <<"https://", "vk.com", "/acme">>,
                  <<"https://", "VK.COM", "/acme">>, <<>>}
        texts == {<<" ", "W", "e", "b", "s", "i", "t", "e", " ">>, <<"a", ".", "r", "u">>,
                  <<"g", "o">>, <<"a", "p", "p", "s">>}
    IN  [href : hrefs, text : texts]
PageLinks == SeqsUpTo(WebLinks, MaxLinks)

InitWeb ==
    /\ f_pc = "page"
    /\ f_in \in PageLinks
    /\ f_out = <<>>
    /\ f_again = <<>>
    /\ RunIdle /\ PagIdle /\ VisIdle /\ ApiIdle

ExtractWebsites ==
    /\ f_pc = "page"
    /\ f_out' = extract_websites(f_in)
    /\ f_pc' = "extracted"
    /\ UNCHANGED <<f_in, f_again, outsideFn>>

NextWeb == ExtractWebsites
SpecWeb == InitWeb /\ [][NextWeb]_vars

\* ---------------- _extract_company_details: websites and email fallback
\* An email is the sequence of its pieces: local part, "@", domain.
generic_domains ==
    {"gmail.com", "yandex.ru", "mail.ru", "bk.ru", "list.ru", "inbox.ru",
     "yahoo.com", "hotmail.com", "outlook.com", "rambler.ru"}

\* The loop over data["emails"]: the first email whose domain
\* (email.split("@")[1]; an email without "@" raises and is passed over) is
\* not a generic one gives the website "https://<domain>".
RECURSIVE FallbackWebsite(_)
FallbackWebsite(emails) ==
    IF emails = <<>> THEN <<>>
    ELSE LET email == Head(emails)
             parts == {k \in 1..Len(email) : email[k] = "@"}
             rest == SubSeq(email, (CHOOSE k \in parts : \A j \in parts : k <= j) + 1,
                            Len(email))
             domain == BeforeFirst(rest, "@")
         IN  IF parts = {} THEN FallbackWebsite(Tail(emails))
             ELSE IF \A g \in generic_domains : Lower(domain) # <<g>>
             THEN <<<<"https://">> \o domain>>
             ELSE FallbackWebsite(Tail(emails))

\* data["websites"] when _extract_company_details returns.
details_websites(links, emails) ==
    LET websites == extract_websites(links)
    IN  IF websites = <<>> /\ emails # <<>> THEN FallbackWebsite(emails)
        ELSE websites

\* The company pages tried: at most one outbound link, up to MaxEmails
\* mailto links.
DetailPages ==
    LET mails == {<<"info", "@", "acme.ru">>, <<"mail", "@", "gmail.com">>,
                  <<"smm", "@", "vk.com">>, <<"nobody">>}
    IN  [links : SeqsUpTo(WebLinks, 1), emails : SeqsUpTo(mails, MaxEmails)]

InitDetails ==
    /\ f_pc = "company"
    /\ f_in \in DetailPages
    /\ f_out = <<>>
    /\ f_again = <<>>
    /\ RunIdle /\ PagIdle /\ VisIdle /\ ApiIdle

ExtractDetails ==
    /\ f_pc = "company"
    /\ f_out' = details_websites(f_in.links, f_in.emails)
    /\ f_pc' = "detailed"
    /\ UNCHANGED <<f_in, f_again, outsideFn>>

NextDetails == ExtractDetails
SpecDetails == InitDetails /\ [][NextDetails]_vars

\* ================================================================ claims
NoDupUrls(rs) == \A i, j \in 1..Len(rs) : i # j => rs[i].url # rs[j].url
NoDup(s) == \A i, j \in 1..Len(s) : i # j => s[i] # s[j]
RECURSIVE Flatten(_)
Flatten(ss) == IF ss = <<>> THEN <<>> ELSE Head(ss) \o Flatten(Tail(ss))
UrlsOf(rs) == {rs[k].url : k \in 1..Len(rs)}

\* C1: every record run_parser hands to save_to_excel and returns has a
\* non-empty name (neither None nor ""), whether it came from a page visit or
\* from the API.
C1_NamedAtSink ==
    pc = "done" =>
        /\ \A k \in 1..Len(returned) : Truthy(returned[k].name)
        /\ sinkCalled => \A k \in 1..Len(sinkData) : Truthy(sinkData[k].name)

\* C2: the urls partitioned among the phase-2 workers were all returned by
\* some discovery run, none occurs twice, and with the API disabled there are
\* exactly as many as the set union of the per-term discovery results.
C2_LinksUnique ==
    pc \notin {"phase1", "raised"} =>
        /\ Flatten(chunks) = links_to_parse
        /\ Range(links_to_parse) \subseteq discovered
        /\ NoDup(links_to_parse)
        /\ ~use_api => Len(links_to_parse) = Cardinality(discovered)

\* C2 witness: workers were submitted after a url returned for two terms was
\* merged into one.
C2_Witness ==
    /\ pc = "phase2" /\ ~use_api
    /\ Len(all_links_to_parse) > Len(links_to_parse)
    /\ Len(chunks) = 2

\* C3: a page attempt of a worker happens only when every term's discovery
\* is over and the link list is frozen, and no term is processed once the
\* workers have been submitted.
PageAttemptStep ==
    \E c \in DOMAIN widx :
        widx'[c] # widx[c] \/ wattempt'[c] # wattempt[c]
TermStep == niche' # niche \/ discovered' # discovered
                           \/ all_links_to_parse' # all_links_to_parse
C3_PhasesSequential ==
    [][ /\ PageAttemptStep =>
             /\ niche > NumNiches
             /\ chunks # <<>> /\ chunks' = chunks
             /\ links_to_parse' = links_to_parse
             /\ discovered' = discovered
        /\ TermStep => chunks = <<>> /\ visitOk = {} /\ visitFailed = {}
      ]_vars

\* C3 witness: both kinds of page attempt have happened after two discovery
\* runs.
C3_Witness ==
    /\ visitOk # {} /\ visitFailed # {}
    /\ Len(all_links_to_parse) > Cardinality(discovered)

\* C4: a url that failed on every attempt left no record in its worker's
\* results; a worker that has begun its chunk keeps going until the chunk is
\* exhausted; and what it returns is exactly the records of the urls of its
\* chunk that did not fail, in chunk order.
Survivors(chunk) == SelectSeq(chunk, LAMBDA u : u \notin visitFailed)
C4_FailedPageSkipped ==
    \A c \in ChunkIds :
        /\ \A k \in 1..Len(chunks[c]) :
              chunks[c][k] \in visitFailed =>
                  /\ k < widx[c]
                  /\ chunks[c][k] \notin UrlsOf(wresults[c])
        /\ (1 < widx[c] /\ widx[c] <= Len(chunks[c])) => wpc[c] = "running"
        /\ wpc[c] \in {"finished", "joined"} =>
              /\ widx[c] = Len(chunks[c]) + 1
              /\ wresults[c] =
                    [k \in 1..Len(Survivors(chunks[c])) |->
                        PageRecord(Survivors(chunks[c])[k])]

\* C4 witness: a worker returned after a url in the middle of its chunk had
\* failed for good and a later url of the chunk had produced a record.
C4_Witness ==
    \E c \in ChunkIds :
        /\ wpc[c] = "finished"
        /\ \E k, j \in 1..Len(chunks[c]) :
              /\ k < j
              /\ chunks[c][k] \in visitFailed
              /\ chunks[c][j] \in UrlsOf(wresults[c])

\* C5: when phase 2 is over, the records it added to the result are at most
\* as many as the links to parse and exactly as many as the urls whose visit
\* succeeded, one record per such url, carrying that url; the same holds of
\* the returned list.
Phase2Records(rs) == SelectSeq(rs, LAMBDA r : r.url \in Range(links_to_parse))
C5_RecordsAreSuccesses ==
    /\ pc \in {"merge", "done"} =>
          LET added == Phase2Records(all_results)
          IN  /\ Len(added) <= Len(links_to_parse)
              /\ Len(added) = Cardinality(visitOk)
              /\ UrlsOf(added) = visitOk
              /\ \A k \in 1..Len(added) : added[k] = PageRecord(added[k].url)
    /\ pc = "done" =>
          /\ Len(Phase2Records(returned)) = Cardinality(visitOk)
          /\ UrlsOf(Phase2Records(returned)) = visitOk

\* C5 witness: a finished job with two chunks in which some visits succeeded
\* and some ran out of retries.
C5_Witness ==
    /\ pc = "done" /\ Len(chunks) = 2
    /\ visitOk # {} /\ visitFailed # {}
    /\ Len(Phase2Records(returned)) < Len(links_to_parse)

\* C6: the returned list has no two records with one url, and it is the list
\* of the records of all_results that are the first with their url, in
\* collection order.
FirstIdx(rs) ==
    {i \in 1..Len(rs) : UrlTruthy(rs[i].url)
                        /\ \A j \in 1..(i - 1) : rs[j].url # rs[i].url}
FirstKept(rs) ==
    LET idx == Ascending(FirstIdx(rs))
    IN  [k \in 1..Len(idx) |-> rs[idx[k]]]
C6_UniqueByUrl ==
    pc = "done" =>
        /\ NoDupUrls(returned)
        /\ returned = FirstKept(all_results)
        /\ sinkCalled => sinkData = returned

\* C6 witness: the job ended after collecting two different records with one
\* url, and returned the earlier one.
C6_Witness ==
    /\ pc = "done"
    /\ \E i, j \in 1..Len(all_results) :
          /\ i < j
          /\ all_results[i].url = all_results[j].url
          /\ all_results[i] # all_results[j]
          /\ \E k \in 1..Len(returned) : returned[k] = all_results[i]

\* C7: after an interrupt during phase 2, every record that had been merged
\* into the result list was delivered to the sink or returned.
C7_PartialResultsKept ==
    pc = "interrupted" =>
        \A k \in 1..Len(mergedAtStop) :
            \/ sinkCalled /\ mergedAtStop[k] \in Range(sinkData)
            \/ mergedAtStop[k] \in Range(returned)

\* C8: a worker whose session could not start is dropped at the join: no
\* exception leaves run_parser because of it, every future is consumed, and
\* the results of each worker that returned are in the merged list and, by
\* url, in the returned list.
C8_SessionFailureAbsorbed ==
    /\ pc = "raised" => chunks = <<>>
    /\ pc \in {"merge", "done"} =>
          \A c \in ChunkIds :
              /\ wpc[c] \in {"joined", "dropped"}
              /\ wpc[c] = "joined" => Range(wresults[c]) \subseteq Range(all_results)
    /\ pc = "done" =>
          \A c \in ChunkIds :
              wpc[c] = "joined" => Range(wresults[c]) \subseteq Range(returned)

\* C8 witness: the job is done, one worker's session had failed to start and
\* another worker's records were returned.
C8_Witness ==
    /\ pc = "done"
    /\ \E c, d \in ChunkIds :
          /\ wpc[c] = "dropped"
          /\ wpc[d] = "joined"
          /\ wresults[d] # <<>>
          /\ Range(wresults[d]) \subseteq Range(returned)

\* C9 (as stated): with no page failing to load, the run returns exactly
\* min(max_items, available) distinct urls, for every page size.
C9_ReturnsMinCapAvailable ==
    (g_pc = "returned" /\ ~loadFailed) =>
        /\ Len(result) = Min(max_items, available)
        /\ NoDup(result)

\* C9 (amended): with no page failing to load, and min(max_items, available)
\* items lying on the first max_items // 12 + 5 result pages, the run returns
\* exactly min(max_items, available) distinct urls, each the cleaned href of
\* an item of the directory.
WithinPageCeiling ==
    Min(max_items, available) <=
        page_size * ((max_items \div ItemsPerPage) + PageBuffer)
C9_ReturnsMinWithinCeiling ==
    (g_pc = "returned" /\ ~loadFailed /\ WithinPageCeiling) =>
        /\ Len(result) = Min(max_items, available)
        /\ NoDup(result)
        /\ Range(result) \subseteq {CleanHref(Href(i)) : i \in 1..available}

\* C9 witness: a run without load failures returned after reaching a cap
\* smaller than what the directory has, over more than one page.
C9_Witness ==
    /\ g_pc = "returned" /\ ~loadFailed /\ WithinPageCeiling
    /\ 0 < max_items /\ max_items < available
    /\ page > 1
    /\ Len(result) = max_items

\* C10: every url in the discovery result set has neither a query string nor
\* a fragment.
HasPiece(href, piece) == \E k \in 1..Len(href) : href[k] = piece
C10_QueryAndFragmentStripped ==
    \A u \in unique_links : ~HasPiece(u, "?") /\ ~HasPiece(u, "#")

\* C11: cleaning an href that is already the output of the cleaning step
\* returns it unchanged, for every href.
C11_CleanIdempotent == f_pc = "recleaned" => f_again = f_out
C11_Witness ==
    /\ f_pc = "recleaned"
    /\ Len(f_in) = MaxHrefLen
    /\ Cardinality({k \in 1..Len(f_in) : f_in[k] = "?"}) >= 2
    /\ f_out # f_in
    /\ f_out # <<>>
    /\ f_again = f_out

\* C12: a phone string with exactly 11 digits of which the first is 7 or 8
\* becomes "+7" and its last 10 digits; one with exactly 10 digits becomes
\* "+7" and those digits; the other characters of the string do not matter.
C12_NationalNumbers ==
    f_pc = "normalized" =>
        LET d == DigitsOf(f_in)
        IN  /\ (Len(d) = 11 /\ d[1] \in {"7", "8"})
                => f_out = <<"+", "7">> \o SubSeq(d, 2, 11)
            /\ Len(d) = 10 => f_out = <<"+", "7">> \o d
C12_Witness ==
    /\ f_pc = "normalized"
    /\ Len(DigitsOf(f_in)) = 11
    /\ DigitsOf(f_in)[1] = "8"
    /\ Head(f_in) = "+"
    /\ \E k \in 1..Len(f_in) : f_in[k] = "("
    /\ Len(f_out) = 12

\* C13: a phone string whose digits are neither 10 long nor 11 long with a
\* first digit 7 or 8 (and not none) becomes "+" and exactly its digits.
C13_PlusAndDigits ==
    f_pc = "normalized" =>
        LET d == DigitsOf(f_in)
        IN  (/\ d # <<>>
             /\ Len(d) # 10
             /\ ~(Len(d) = 11 /\ d[1] \in {"7", "8"}))
            => f_out = <<"+">> \o d

\* C14: no href that _extract_websites returns contains a denylisted domain
\* (in any letter case), wherever its link stood and whatever its text was.
C14_NoDenylisted ==
    f_pc = "extracted" =>
        \A k \in 1..Len(f_out) :
            \A d \in ignored_domains :
                \A j \in 1..Len(f_out[k]) : Lower(<<f_out[k][j]>>) # <<d>>
C14_Witness ==
    /\ f_pc = "extracted"
    /\ Len(f_in) = MaxLinks
    /\ f_in[1].href = <<"https://", "VK.COM", "/acme">>
    /\ is_likely_website(Strip(Lower(f_in[1].text)))
    /\ f_in[2].href = <<"https://", "acme.ru">>
    /\ f_in[3].href = <<"https://", "vk.com", "/acme">>
    /\ f_out = <<f_in[2].href>>

\* C15: the url-dedup of run_parser, applied to the list it produced, gives
\* that list again: the same records in the same order.
C15_DedupIdempotent == pc = "done" => UniqueResults(returned) = returned
C15_Witness ==
    /\ pc = "done"
    /\ Len(returned) >= 2
    /\ returned[1].url # returned[2].url
    /\ UniqueResults(returned) = returned

\* C16: save_to_excel is never invoked with an empty list, and a run that
\* collected no record with a url completes without invoking it, returning
\* the empty list (the count of zero).
C16_NoEmptySave ==
    /\ sinkCalled => sinkData # <<>>
    /\ (pc = "done" /\ \A k \in 1..Len(all_results) : ~UrlTruthy(all_results[k].url))
        => (~sinkCalled /\ returned = <<>>)
C16_Witness ==
    /\ pc = "done"
    /\ discovered # {}
    /\ all_results = <<>>
    /\ ~sinkCalled
    /\ returned = <<>>

\* The number of page visits at the end of the log that added no new url.
RECURSIVE TrailingEmpty(_)
TrailingEmpty(log) ==
    IF log = <<>> \/ log[Len(log)] THEN 0
    ELSE 1 + TrailingEmpty(SubSeq(log, 1, Len(log) - 1))

\* C17: consecutive_empty is the number of latest page visits in a row that
\* added no new url (zero after a visit that added one); three such visits
\* in a row stop the discovery, and a discovery that stopped after fewer
\* stopped on the end marker.
C17_StopsAfterThreeEmpty ==
    LET run == TrailingEmpty(visitLog)
    IN  /\ consecutive_empty = run
        /\ run <= max_consecutive_empty
        /\ run = max_consecutive_empty => stopped
        /\ (stopped /\ run < max_consecutive_empty) => markerSeen
C17_Witness ==
    /\ g_pc = "returned"
    /\ stopped
    /\ ~markerSeen
    /\ TrailingEmpty(visitLog) = max_consecutive_empty
    /\ \E k \in 1..(Len(visitLog) - 1) : ~visitLog[k] /\ visitLog[k + 1]
    /\ \E k \in 1..(Len(visitLog) - 2) :
          ~visitLog[k] /\ ~visitLog[k + 1] /\ visitLog[k + 2]

\* C18: once a visited page has shown the end marker, with or without item
\* links, the loop requests no further page.
C18_MarkerStops == markerSeen => (g_pc = "returned" \/ ~LoopCond)

\* C19: when at least max_items urls were discovered, the returned urls are
\* the max_items urls discovered first.
C19_FirstDiscoveredKept ==
    (g_pc = "returned" /\ Len(discoveryOrder) >= max_items)
        => Range(result) = Range(Take(discoveryOrder, max_items))

\* C20 as claimed: an attempt whose h1 wait timed out still returns the
\* record of the page, at once.
C20_WaitTimeoutExtracts ==
    (v_log # <<>> /\ v_log[Len(v_log)] = "wait")
        => (v_pc = "returned" /\ v_result = <<PageRecord(v_url)>>)

\* C20 as amended: an attempt whose h1 wait timed out is a failed attempt
\* like one whose navigation failed. Every failed attempt uses up one of the
\* max_retries attempts, a record is returned only by an attempt that found
\* the h1, and None is returned after max_retries failed attempts.
C20_WaitTimeoutIsFailure ==
    /\ Len(v_log) <= max_retries
    /\ v_pc = "attempt"
        => (v_attempt = Len(v_log) /\ \A k \in 1..Len(v_log) : v_log[k] # "ok")
    /\ v_pc = "returned"
        => /\ \A k \in 1..(Len(v_log) - 1) : v_log[k] # "ok"
           /\ IF v_log[Len(v_log)] = "ok"
              THEN v_result = <<PageRecord(v_url)>>
              ELSE v_result = <<>> /\ Len(v_log) = max_retries
C20_Witness ==
    /\ v_pc = "returned"
    /\ v_log = <<"wait", "wait", "wait">>
    /\ v_result = <<>>

\* C21: parse_company_page loads the url at most max_retries (3) times; the
\* first attempt that succeeds ends the visit with its record; after the
\* third failed attempt the visit returns None; whatever an attempt raises,
\* the visit ends by returning.
C21_AtMostThreeAttempts ==
    LET oks == {k \in 1..Len(v_log) : v_log[k] = "ok"}
    IN  /\ v_pc \in {"attempt", "returned"}
        /\ Len(v_log) <= max_retries
        /\ oks \subseteq {Len(v_log)}
        /\ oks # {} => (v_pc = "returned" /\ v_result = <<PageRecord(v_url)>>)
        /\ (oks = {} /\ Len(v_log) = max_retries)
            => (v_pc = "returned" /\ v_result = <<>>)
        /\ (oks = {} /\ Len(v_log) < max_retries) => v_pc = "attempt"
C21_Witness ==
    /\ v_pc = "returned"
    /\ v_log = <<"navigation", "extraction", "wait">>
    /\ v_result = <<>>

\* The chunks of phase 2 against the frozen list of links.
ChunkShape ==
    LET size == Max(MinChunk, Len(links_to_parse) \div max_workers)
    IN  /\ Flatten(chunks) = links_to_parse
        /\ NoDup(links_to_parse)
        /\ \A c \in 1..Len(chunks) :
              /\ Len(chunks[c]) \in 1..size
              /\ c < Len(chunks) => Len(chunks[c]) = size
ChunkStep ==
    pc \in {"phase2", "draining"} =>
        LET started == {c \in ChunkIds : wpc[c] = "queued" /\ wpc'[c] = "running"}
        IN  /\ ChunkShape
            /\ chunks' = chunks
            /\ \A c \in ChunkIds : wpc'[c] = "queued" => wpc[c] = "queued"
            /\ Cardinality(started) <= 1
            /\ sessionsOpened' = sessionsOpened + Cardinality(started)
\* C22: during phase 2 the chunks, laid end to end, are the frozen list of
\* links (which has no duplicate); every chunk but the last has
\* max(5, total div max_workers) links and the last has from 1 up to that
\* many; a chunk leaves the queue once, and a browser session is opened
\* exactly when a chunk's worker starts, one per chunk.
C22_ChunksPartitionLinks == [][ChunkStep]_vars
C22_Witness ==
    /\ pc = "merge"
    /\ Len(chunks) = 2
    /\ Len(chunks[2]) < Len(chunks[1])
    /\ \A c \in ChunkIds : wpc[c] = "joined"

\* How often record r occurs in the list rs.
Occurrences(rs, r) == Cardinality({k \in 1..Len(rs) : rs[k] = r})
MergeStep ==
    pc \in {"phase2", "draining"} =>
        /\ all_results' # all_results =>
              \E c \in ChunkIds :
                  /\ wpc[c] = "finished" /\ wpc'[c] = "joined"
                  /\ pc = "phase2"
                  /\ all_results' = all_results \o wresults[c]
        /\ pc' = "merge" =>
              \A c \in ChunkIds :
                  /\ wpc'[c] \in {"joined", "dropped"}
                  /\ wpc'[c] = "joined" =>
                        \A k \in 1..Len(wresults'[c]) :
                            Occurrences(all_results', wresults'[c][k]) = 1
\* C23: while the pool runs, all_results changes only when the orchestrator
\* joins a finished chunk and appends that chunk's results; no step of a
\* worker changes it. When phase 2 is over every chunk has been joined or
\* dropped, and each record of a joined chunk is in all_results once.
C23_MergedOnlyAtJoin == [][MergeStep]_vars
C23_Witness ==
    /\ pc = "merge"
    /\ Len(chunks) = 2
    /\ \A c \in ChunkIds : wpc[c] = "joined" /\ wresults[c] # <<>>
    /\ all_results[1].url \in Range(chunks[2])
    /\ all_results[Len(all_results)].url \in Range(chunks[1])

DiscoveryStep ==
    (pc = "phase1" /\ niche' = niche + 1) =>
        /\ sessionsOpen' = 0
        /\ sessionsOpened' =
              IF all_results' = all_results THEN sessionsOpened + 1
              ELSE sessionsOpened
        /\ ~use_api => sessionsOpened' = niche
C28_ApiLoopTerminates == <>(a_pc = "returned")

\* The page has a link to href whose text marks a likely website.
HasLikelyLink(href) ==
    \E k \in 1..Len(f_in) :
        /\ f_in[k].href = href
        /\ is_likely_website(Strip(Lower(f_in[k].text)))
\* C26: in the returned list every href that has a link with a website label
\* or a domain-shaped text stands before every href that has none.
C26_LikelyFirst ==
    f_pc = "extracted" =>
        \A i, j \in 1..Len(f_out) :
            (HasLikelyLink(f_out[j]) /\ ~HasLikelyLink(f_out[i])) => j < i

\* C27: a browser session that fails to start during the discovery of one
\* term does not end the job: run_parser is never left by that exception
\* with records collected for earlier terms undelivered.
C27_DiscoveryFailureAbsorbed ==
    pc = "raised" => (all_results = <<>> \/ sinkCalled)

\* C29: no entry of the websites of a record contains a denylisted domain,
\* the entry derived from an email domain included.
C29_NoDenylistedInRecord ==
    f_pc = "detailed" =>
        \A k \in 1..Len(f_out) : ~IgnoredHref(f_out[k])

====
